---- MODULE Spec2Model ----
(***************************************************************************)
(* TSLanguageServiceProxy (shared-services/decorator.ts): the composite    *)
(* language service that replaces or merges the host service's results     *)
(* with those of a template language service.                              *)
(*                                                                         *)
(* One request is in flight at a time (the service is synchronous).  A     *)
(* request action runs the whole wrapper: it consults the template         *)
(* provider, calls the template service's handlers and the host, and       *)
(* leaves the events it caused in `trace` and what it returned in          *)
(* `result`.  `Return` hands the result to the caller.                     *)
(***************************************************************************)
EXTENDS Integers, Sequences, FiniteSets, TLC

VARIABLES
    templateService,  \* the hooks the template language service implements
    templates,        \* the document's templates, ascending by start
    constructed,      \* number of TSLanguageServiceProxy objects constructed
    wrappers,         \* this.wrappers of the proxy constructed last
    registryWraps,    \* closures layered over ts.getSupportedCodeFixes
    enumLog,          \* enumerations read since the last construction (last two)
    phase,            \* "idle" | "returned" | "failed" (an invocation threw)
    call,             \* the request in flight: [op, args]
    trace,            \* locator, handler and host invocations of the request
    result            \* the value returned to the caller

vars == <<templateService, templates, constructed, wrappers, registryWraps,
          enumLog, phase, call, trace, result>>

(***************************************************************************)
(* Bounds of the model.                                                    *)
(***************************************************************************)
DocLen == 4
MaxTemplates == 2
MaxItems == 2
MaxLocal == 1
MaxConstruct == 2

Offsets == 0..DocLen

(***************************************************************************)
(* Values.  `undefined` and an absent optional span are records, so that   *)
(* every value compares with every other.                                  *)
(***************************************************************************)
NoResult == [src |-> "none"]
AbsentSpan == [kind |-> "absent"]
\* what JavaScript's undefined + number evaluates to
NaN == [kind |-> "NaN"]
Span(s, l) == [start |-> s, length |-> l]
LocalSpans == {Span(s, 1) : s \in 0..MaxLocal}
OptLocalSpans == LocalSpans \cup {AbsentSpan}

RECURSIVE Flatten(_)
Flatten(ss) == IF ss = <<>> THEN <<>> ELSE Head(ss) \o Flatten(Tail(ss))

(***************************************************************************)
(* Template: one embedded region, global range [start, end).               *)
(***************************************************************************)
globalOffsetToLocal(t, o) == o - t.start
localOffsetToGlobal(t, o) == o + t.start
intersectWith(t, s, e) == s < t.end /\ t.start < e

(***************************************************************************)
(* The documents the model ranges over: up to MaxTemplates non-empty       *)
(* templates inside 0..DocLen, ascending and separated by at least one     *)
(* character of host code.                                                 *)
(***************************************************************************)
Ranges == {[start |-> s, end |-> e] : s \in 1..DocLen, e \in 1..DocLen}
IsLayout(l) ==
    /\ \A i \in DOMAIN l : l[i].start < l[i].end
    /\ \A i \in DOMAIN l : i < Len(l) => l[i].end < l[i + 1].start
Layouts == {l \in UNION {[1..n -> Ranges] : n \in 0..MaxTemplates} : IsLayout(l)}

(***************************************************************************)
(* TemplateProvider.  getTemplateAt gives the index of the template whose  *)
(* [start, end) holds the offset, 0 when there is none.                    *)
(***************************************************************************)
getTemplateAt(gloOffset) ==
    LET found == {i \in DOMAIN templates :
                    templates[i].start <= gloOffset /\ gloOffset < templates[i].end}
    IN IF found = {} THEN 0 ELSE CHOOSE i \in found : TRUE
getAllTemplates == [i \in DOMAIN templates |-> i]

(***************************************************************************)
(* What one request leaves behind: the invocations it made, in order, and  *)
(* the value it returned.                                                  *)
(***************************************************************************)
LocatorEv(fn, args) == [who |-> "locator", fn |-> fn, args |-> args]
HandlerEv(hook, i, args, out) ==
    [who |-> "handler", hook |-> hook, tpl |-> i, args |-> args, out |-> out]
HostEv(op, args, out) == [who |-> "host", op |-> op, args |-> args, out |-> out]
Outcome(tr, res) == [trace |-> tr, result |-> res]

(***************************************************************************)
(* What the host can answer.  Host values carry src = "host".              *)
(***************************************************************************)
HostObject(op) == [src |-> "host", op |-> op]
MergeOps == {"getSyntacticDiagnostics", "getSemanticDiagnostics", "getOutliningSpans",
             "getFormattingEditsForRange", "getCodeFixesAtPosition"}
HostOuts(op) ==
    IF op \in MergeOps THEN {<<>>, <<HostObject(op)>>} ELSE {NoResult, HostObject(op)}

(***************************************************************************)
(* What the template language service's handlers can answer, in template   *)
(* local coordinates.  Handler values carry src = "tpl"; an array that may *)
(* also be undefined is the record [src, list].                            *)
(***************************************************************************)
CompletionEntries(n, a) ==
    [j \in 1..n |-> [name |-> j,
                     replacementSpan |-> IF j = a THEN AbsentSpan ELSE Span(j - 1, 1)]]
CompletionOuts ==
    {NoResult} \cup {[src |-> "tpl", entries |-> CompletionEntries(n, a)] :
                        n \in 0..MaxItems, a \in 0..1}
DetailsOuts == {NoResult, [src |-> "tpl", name |-> "entry"]}
QuickInfoOuts == {NoResult} \cup {[src |-> "tpl", textSpan |-> sp] : sp \in OptLocalSpans}
DefinitionOuts ==
    {NoResult} \cup {[src |-> "tpl",
                       list |-> [j \in 1..n |-> [textSpan |-> Span(j - 1, 1)]]] :
                        n \in 0..MaxItems}
DefinitionAndBoundSpanOuts ==
    {NoResult} \cup {[src |-> "tpl", definitions |-> <<>>, textSpan |-> sp] :
                        sp \in LocalSpans}
SignatureHelpOuts ==
    {NoResult} \cup {[src |-> "tpl", applicableSpan |-> sp] : sp \in OptLocalSpans}
ReferencesOuts ==
    {NoResult} \cup
    {[src |-> "tpl",
      list |-> [j \in 1..n |-> [definition |-> [textSpan |-> Span(j - 1, 1)],
                                references |-> <<[textSpan |-> Span(j - 1, 1)]>>]]] :
        n \in 0..MaxItems}
JsxClosingTagOuts == {NoResult, [src |-> "tpl", newText |-> "</a>"]}
\* Diagnostic.start is optional: item a, if any, has no start field
DiagnosticOuts ==
    {[j \in 1..n |-> IF j = a
                     THEN [src |-> "tpl", length |-> 1, code |-> j]
                     ELSE [src |-> "tpl", start |-> j - 1, length |-> 1, code |-> j]] :
        n \in 0..MaxItems, a \in 0..1}
OutliningOuts ==
    {[j \in 1..n |-> [src |-> "tpl", textSpan |-> Span(j - 1, 2),
                      hintSpan |-> IF j = a THEN AbsentSpan ELSE Span(j - 1, 1)]] :
        n \in 0..MaxItems, a \in 0..1}
FormattingOuts ==
    {[j \in 1..n |-> [src |-> "tpl", span |-> Span(j - 1, 1), newText |-> j]] :
        n \in 0..MaxItems}
\* action j holds j changes, change c holds c text edits
CodeFixOuts ==
    {[j \in 1..n |->
        [src |-> "tpl", fixName |-> j,
         changes |-> [c \in 1..j |->
            [textChanges |-> [e \in 1..c |-> [span |-> Span(c + e - 2, 1),
                                              newText |-> e]]]]]] :
        n \in 0..MaxItems}

(***************************************************************************)
(* translateTextSpan: from template origin to global origin.               *)
(***************************************************************************)
translateTextSpan(textSpan, template) ==
    IF textSpan # AbsentSpan
    THEN [textSpan EXCEPT !.start = localOffsetToGlobal(template, textSpan.start)]
    ELSE textSpan

(***************************************************************************)
(* The wrappers.  Each takes the caller's arguments and the answers the    *)
(* host and the handlers give when asked (hostOut, tplOut), and yields the *)
(* invocations made and the value returned.  callOriginal() is the host's  *)
(* own operation applied to the caller's arguments.                        *)
(***************************************************************************)
callOriginal(op, args, hostOut) == HostEv(op, args, hostOut)
TemplateAtEv(args) == LocatorEv("getTemplateAt", <<args[1]>>)

wrapGetCompletionsAtPosition(args, hostOut, tplOut) ==
    LET op == "getCompletionsAtPosition"
        i == getTemplateAt(args[1])
        temOffset == globalOffsetToLocal(templates[i], args[1])
        info == tplOut
    IN IF i = 0
       THEN Outcome(<<TemplateAtEv(args), callOriginal(op, args, hostOut)>>, hostOut)
       ELSE IF "getCompletionsAtPosition" \in templateService
       THEN Outcome(<<TemplateAtEv(args),
                      HandlerEv("getCompletionsAtPosition", i, <<temOffset>>, tplOut)>>,
                    IF info # NoResult
                    THEN [info EXCEPT !.entries =
                            [j \in DOMAIN @ |->
                                [@[j] EXCEPT !.replacementSpan =
                                    translateTextSpan(@, templates[i])]]]
                    ELSE info)
       ELSE Outcome(<<TemplateAtEv(args)>>, NoResult)

wrapGetCompletionEntryDetails(args, hostOut, tplOut) ==
    LET op == "getCompletionEntryDetails"
        i == getTemplateAt(args[1])
        temOffset == globalOffsetToLocal(templates[i], args[1])
    IN IF i = 0
       THEN Outcome(<<TemplateAtEv(args), callOriginal(op, args, hostOut)>>, hostOut)
       ELSE IF "getCompletionEntryDetails" \in templateService
       THEN Outcome(<<TemplateAtEv(args),
                      HandlerEv("getCompletionEntryDetails", i, <<temOffset>>, tplOut)>>,
                    tplOut)
       ELSE Outcome(<<TemplateAtEv(args)>>, NoResult)

\* faulty variant: outside every template the host is not asked
wrapGetQuickInfoAtPosition_NoHost(args, hostOut, tplOut) ==
    LET i == getTemplateAt(args[1])
        temOffset == globalOffsetToLocal(templates[i], args[1])
    IN IF i = 0
       THEN Outcome(<<TemplateAtEv(args)>>, NoResult)
       ELSE Outcome(<<TemplateAtEv(args),
                      HandlerEv("getQuickInfoAtPosition", i, <<temOffset>>, tplOut)>>,
                    tplOut)
\* the hook tested inside the wrapper is getCompletionEntryDetails (line 152)
wrapGetQuickInfoAtPosition(args, hostOut, tplOut) ==
    LET op == "getQuickInfoAtPosition"
        i == getTemplateAt(args[1])
        temOffset == globalOffsetToLocal(templates[i], args[1])
        info == tplOut
    IN IF i = 0
       THEN Outcome(<<TemplateAtEv(args), callOriginal(op, args, hostOut)>>, hostOut)
       ELSE IF "getCompletionEntryDetails" \in templateService
       THEN Outcome(<<TemplateAtEv(args),
                      HandlerEv("getQuickInfoAtPosition", i, <<temOffset>>, tplOut)>>,
                    IF info # NoResult
                    THEN [info EXCEPT !.textSpan = translateTextSpan(@, templates[i])]
                    ELSE info)
       ELSE Outcome(<<TemplateAtEv(args)>>, NoResult)

wrapGetDefinitionAtPosition(args, hostOut, tplOut) ==
    LET op == "getDefinitionAtPosition"
        i == getTemplateAt(args[1])
        temOffset == globalOffsetToLocal(templates[i], args[1])
    IN IF i = 0
       THEN Outcome(<<TemplateAtEv(args), callOriginal(op, args, hostOut)>>, hostOut)
       ELSE Outcome(<<TemplateAtEv(args),
                      HandlerEv("getDefinitionAtPosition", i, <<temOffset>>, tplOut)>>,
                    tplOut)

wrapGetDefinitionAndBoundSpan(args, hostOut, tplOut) ==
    LET op == "getDefinitionAndBoundSpan"
        i == getTemplateAt(args[1])
        temOffset == globalOffsetToLocal(templates[i], args[1])
    IN IF i = 0
       THEN Outcome(<<TemplateAtEv(args), callOriginal(op, args, hostOut)>>, hostOut)
       ELSE Outcome(<<TemplateAtEv(args),
                      HandlerEv("getDefinitionAndBoundSpan", i, <<temOffset>>, tplOut)>>,
                    tplOut)

wrapGetSignatureHelpItemsAtPosition(args, hostOut, tplOut) ==
    LET op == "getSignatureHelpItems"
        i == getTemplateAt(args[1])
        temOffset == globalOffsetToLocal(templates[i], args[1])
        items == tplOut
    IN IF i = 0
       THEN Outcome(<<TemplateAtEv(args), callOriginal(op, args, hostOut)>>, hostOut)
       ELSE Outcome(<<TemplateAtEv(args),
                      HandlerEv("getSignatureHelpItemsAtPosition", i, <<temOffset>>, tplOut)>>,
                    IF items # NoResult
                    THEN [items EXCEPT !.applicableSpan =
                            translateTextSpan(@, templates[i])]
                    ELSE items)

\* only symbol.definition.textSpan is translated (line 390)
wrapGetReferencesAtPosition(args, hostOut, tplOut) ==
    LET op == "findReferences"
        i == getTemplateAt(args[1])
        temOffset == globalOffsetToLocal(templates[i], args[1])
        symbols == tplOut
    IN IF i = 0
       THEN Outcome(<<TemplateAtEv(args), callOriginal(op, args, hostOut)>>, hostOut)
       ELSE Outcome(<<TemplateAtEv(args),
                      HandlerEv("getReferencesAtPosition", i, <<temOffset>>, tplOut)>>,
                    IF symbols # NoResult
                    THEN [symbols EXCEPT !.list =
                            [j \in DOMAIN @ |->
                                [@[j] EXCEPT !.definition.textSpan =
                                    translateTextSpan(@, templates[i])]]]
                    ELSE symbols)

\* faulty variant: falls back to the host when the handler gives nothing
wrapGetJsxClosingTagAtPosition_Fallback(args, hostOut, tplOut) ==
    LET op == "getJsxClosingTagAtPosition"
        i == getTemplateAt(args[1])
        temOffset == globalOffsetToLocal(templates[i], args[1])
    IN IF i = 0 \/ tplOut = NoResult
       THEN Outcome(<<TemplateAtEv(args), callOriginal(op, args, hostOut)>>, hostOut)
       ELSE Outcome(<<TemplateAtEv(args),
                      HandlerEv("getJsxClosingTagAtPosition", i, <<temOffset>>, tplOut)>>,
                    tplOut)
wrapGetJsxClosingTagAtPosition(args, hostOut, tplOut) ==
    LET op == "getJsxClosingTagAtPosition"
        i == getTemplateAt(args[1])
        temOffset == globalOffsetToLocal(templates[i], args[1])
    IN IF i = 0
       THEN Outcome(<<TemplateAtEv(args), callOriginal(op, args, hostOut)>>, hostOut)
       ELSE Outcome(<<TemplateAtEv(args),
                      HandlerEv("getJsxClosingTagAtPosition", i, <<temOffset>>, tplOut)>>,
                    tplOut)

(***************************************************************************)
(* Merging wrappers: tplOuts[i] is what the handler answers for the i-th   *)
(* template.  The handlers run first, the host last.                       *)
(***************************************************************************)
AllTemplatesEv == LocatorEv("getAllTemplates", <<>>)
HandlerEvs(hook, visited, argsOf(_), tplOuts) ==
    [k \in DOMAIN visited |->
        HandlerEv(hook, visited[k], argsOf(visited[k]), tplOuts[visited[k]])]
NoArgs(i) == <<>>

\* diagnostic.start = template.localOffsetToGlobal(diagnostic.start!): the
\* assignment is made whether or not the diagnostic has a start; without
\* one the sum is undefined + template.start
TranslateDiagnostics(subDiagnostics, template) ==
    [j \in DOMAIN subDiagnostics |->
        IF "start" \in DOMAIN subDiagnostics[j]
        THEN [subDiagnostics[j] EXCEPT !.start = localOffsetToGlobal(template, @)]
        ELSE [f \in DOMAIN subDiagnostics[j] \cup {"start"} |->
                IF f = "start" THEN NaN ELSE subDiagnostics[j][f]]]

\* line 220: diagnostics.push(...diagnostics), once per template
RECURSIVE SyntacticAccumulate(_, _)
SyntacticAccumulate(visited, tplOuts) ==
    IF visited = <<>> THEN <<>>
    ELSE LET diagnostics ==
                SyntacticAccumulate(SubSeq(visited, 1, Len(visited) - 1), tplOuts)
         IN diagnostics \o diagnostics

wrapGetSyntacticDiagnostics(args, hostOut, tplOuts) ==
    LET op == "getSyntacticDiagnostics"
        visited == getAllTemplates
    IN Outcome(<<AllTemplatesEv>>
                \o HandlerEvs("getSyntacticDiagnostics", visited, NoArgs, tplOuts)
                \o <<callOriginal(op, args, hostOut)>>,
               hostOut \o SyntacticAccumulate(visited, tplOuts))

\* line 243: diagnostics.push(...subDiagnostics)
RECURSIVE SemanticAccumulate(_, _)
SemanticAccumulate(visited, tplOuts) ==
    IF visited = <<>> THEN <<>>
    ELSE LET i == visited[Len(visited)]
             diagnostics ==
                SemanticAccumulate(SubSeq(visited, 1, Len(visited) - 1), tplOuts)
         IN diagnostics \o TranslateDiagnostics(tplOuts[i], templates[i])

wrapGetSemanticDiagnostics(args, hostOut, tplOuts) ==
    LET op == "getSemanticDiagnostics"
        visited == getAllTemplates
    IN Outcome(<<AllTemplatesEv>>
                \o HandlerEvs("getSemanticDiagnostics", visited, NoArgs, tplOuts)
                \o <<callOriginal(op, args, hostOut)>>,
               hostOut \o SemanticAccumulate(visited, tplOuts))

TranslateOutliningSpans(outliningSpans, context) ==
    [j \in DOMAIN outliningSpans |->
        [outliningSpans[j] EXCEPT !.textSpan = translateTextSpan(@, context),
                                  !.hintSpan = translateTextSpan(@, context)]]

wrapGetOutliningSpans(args, hostOut, tplOuts) ==
    LET op == "getOutliningSpans"
        visited == getAllTemplates
        spans == Flatten([k \in DOMAIN visited |->
                    TranslateOutliningSpans(tplOuts[visited[k]], templates[visited[k]])])
    IN Outcome(<<AllTemplatesEv>>
                \o HandlerEvs("getOutliningSpans", visited, NoArgs, tplOuts)
                \o <<callOriginal(op, args, hostOut)>>,
               hostOut \o spans)

(***************************************************************************)
(* Range-filtered merging: templates that do not intersect the requested   *)
(* range are skipped (lines 260 and 287).                                  *)
(***************************************************************************)
\* faulty variant: no template is skipped
Intersecting_Unfiltered(gloStart, gloEnd) == getAllTemplates
Intersecting(gloStart, gloEnd) ==
    SelectSeq(getAllTemplates, LAMBDA i : intersectWith(templates[i], gloStart, gloEnd))

TranslateTextChanges(changes, template) ==
    [j \in DOMAIN changes |->
        [changes[j] EXCEPT !.span = translateTextSpan(@, template)]]

wrapGetFormattingEditsForRange(args, hostOut, tplOuts) ==
    LET op == "getFormattingEditsForRange"
        gloStart == args[1]
        gloEnd == args[2]
        visited == Intersecting(gloStart, gloEnd)
        TemRange(i) == <<globalOffsetToLocal(templates[i], gloStart),
                          globalOffsetToLocal(templates[i], gloEnd)>>
        changes == Flatten([k \in DOMAIN visited |->
                    TranslateTextChanges(tplOuts[visited[k]], templates[visited[k]])])
    IN Outcome(<<AllTemplatesEv>>
                \o HandlerEvs("getFormattingEditsForRange", visited, TemRange, tplOuts)
                \o <<callOriginal(op, args, hostOut)>>,
               hostOut \o changes)

\* faulty variant: only the first text edit of each change is translated
TranslateCodeFixActions_FirstEdit(actions, template) ==
    [j \in DOMAIN actions |->
        [actions[j] EXCEPT !.changes =
            [c \in DOMAIN @ |->
                [@[c] EXCEPT !.textChanges =
                    [e \in DOMAIN @ |->
                        IF e = 1
                        THEN [@[e] EXCEPT !.span = translateTextSpan(@, template)]
                        ELSE @[e]]]]]]
TranslateCodeFixActions(actions, template) ==
    [j \in DOMAIN actions |->
        [actions[j] EXCEPT !.changes =
            [c \in DOMAIN @ |->
                [@[c] EXCEPT !.textChanges = TranslateTextChanges(@, template)]]]]

wrapGetCodeFixesAtPosition(args, hostOut, tplOuts) ==
    LET op == "getCodeFixesAtPosition"
        gloStart == args[1]
        gloEnd == args[2]
        visited == Intersecting(gloStart, gloEnd)
        TemRange(i) == <<globalOffsetToLocal(templates[i], gloStart),
                          globalOffsetToLocal(templates[i], gloEnd)>>
        actions == Flatten([k \in DOMAIN visited |->
                    TranslateCodeFixActions(tplOuts[visited[k]], templates[visited[k]])])
    IN Outcome(<<AllTemplatesEv>>
                \o HandlerEvs("getCodeFixesAtPosition", visited, TemRange, tplOuts)
                \o <<callOriginal(op, args, hostOut)>>,
               hostOut \o actions)

(***************************************************************************)
(* The constructor: the wrap* methods in the order they are called, each   *)
(* with the hook it tests and the host operation it registers under.       *)
(***************************************************************************)
WrapTable == <<
    [hook |-> "getCompletionsAtPosition",        name |-> "getCompletionsAtPosition"],
    [hook |-> "getCompletionEntryDetails",       name |-> "getCompletionEntryDetails"],
    [hook |-> "getQuickInfoAtPosition",          name |-> "getQuickInfoAtPosition"],
    [hook |-> "getDefinitionAtPosition",         name |-> "getDefinitionAtPosition"],
    [hook |-> "getDefinitionAndBoundSpan",       name |-> "getDefinitionAndBoundSpan"],
    [hook |-> "getSemanticDiagnostics",          name |-> "getSemanticDiagnostics"],
    [hook |-> "getSyntacticDiagnostics",         name |-> "getSyntacticDiagnostics"],
    [hook |-> "getFormattingEditsForRange",      name |-> "getFormattingEditsForRange"],
    [hook |-> "getCodeFixesAtPosition",          name |-> "getCodeFixesAtPosition"],
    [hook |-> "getSignatureHelpItemsAtPosition", name |-> "getSignatureHelpItems"],
    [hook |-> "getOutliningSpans",               name |-> "getOutliningSpans"],
    [hook |-> "getReferencesAtPosition",         name |-> "findReferences"],
    [hook |-> "getJsxClosingTagAtPosition",      name |-> "getJsxClosingTagAtPosition"] >>
Hooks == {WrapTable[k].hook : k \in DOMAIN WrapTable} \cup {"getSupportedCodeFixes"}
WrappableOps == {WrapTable[k].name : k \in DOMAIN WrapTable}
HookOf(name) == WrapTable[CHOOSE k \in DOMAIN WrapTable : WrapTable[k].name = name].hook

\* the capability records the model ranges over: every hook, none, just one
CapabilityRecords == {Hooks, {}} \cup {{h} : h \in Hooks}

\* this.wrappers after the constructor: wrap(name) pushes, in call order
ConstructorWrappers_Unguarded ==
    [k \in DOMAIN WrapTable |-> WrapTable[k].name]
ConstructorWrappers ==
    LET kept == SelectSeq(WrapTable, LAMBDA w : w.hook \in templateService)
    IN [k \in DOMAIN kept |-> kept[k].name]

\* wrapGetSupportedCodeFixes: one more closure over ts.getSupportedCodeFixes
ConstructorRegistryWraps(before) ==
    IF "getSupportedCodeFixes" \in templateService
    THEN before + 1
    ELSE before

(***************************************************************************)
(* decorate(): the composite answers a registered name with its wrapper    *)
(* and every other name with the host's own member.                        *)
(***************************************************************************)
Wrapped(name) == \E k \in DOMAIN wrappers : wrappers[k] = name

Wrapper(name, args, hostOut, tplOut) ==
    CASE name = "getCompletionsAtPosition" ->
            wrapGetCompletionsAtPosition(args, hostOut, tplOut)
      [] name = "getCompletionEntryDetails" ->
            wrapGetCompletionEntryDetails(args, hostOut, tplOut)
      [] name = "getQuickInfoAtPosition" ->
            wrapGetQuickInfoAtPosition(args, hostOut, tplOut)
      [] name = "getDefinitionAtPosition" ->
            wrapGetDefinitionAtPosition(args, hostOut, tplOut)
      [] name = "getDefinitionAndBoundSpan" ->
            wrapGetDefinitionAndBoundSpan(args, hostOut, tplOut)
      [] name = "getSemanticDiagnostics" ->
            wrapGetSemanticDiagnostics(args, hostOut, tplOut)
      [] name = "getSyntacticDiagnostics" ->
            wrapGetSyntacticDiagnostics(args, hostOut, tplOut)
      [] name = "getFormattingEditsForRange" ->
            wrapGetFormattingEditsForRange(args, hostOut, tplOut)
      [] name = "getCodeFixesAtPosition" ->
            wrapGetCodeFixesAtPosition(args, hostOut, tplOut)
      [] name = "getSignatureHelpItems" ->
            wrapGetSignatureHelpItemsAtPosition(args, hostOut, tplOut)
      [] name = "getOutliningSpans" ->
            wrapGetOutliningSpans(args, hostOut, tplOut)
      [] name = "findReferences" ->
            wrapGetReferencesAtPosition(args, hostOut, tplOut)
      [] name = "getJsxClosingTagAtPosition" ->
            wrapGetJsxClosingTagAtPosition(args, hostOut, tplOut)

\* faulty variant: a wrapper also answers to the name of the hook it was made for
decorate_ByHookName(name, args, hostOut, tplOut) ==
    LET answering == {k \in DOMAIN WrapTable :
                        /\ Wrapped(WrapTable[k].name)
                        /\ name \in {WrapTable[k].name, WrapTable[k].hook}}
    IN IF answering # {}
       THEN Wrapper(WrapTable[CHOOSE k \in answering : TRUE].name, args, hostOut, tplOut)
       ELSE Outcome(<<HostEv(name, args, hostOut)>>, hostOut)
decorate(name, args, hostOut, tplOut) ==
    IF Wrapped(name)
    THEN Wrapper(name, args, hostOut, tplOut)
    ELSE Outcome(<<HostEv(name, args, hostOut)>>, hostOut)

(***************************************************************************)
(* Failures.  Neither the function decorate() installs nor any wrapper has *)
(* a try, catch or finally: when the k-th invocation of a request throws,  *)
(* the invocations before it were made as in the run where nothing throws, *)
(* none is made after it, and the failure leaves the composite's function. *)
(***************************************************************************)
Errors == {"TypeError", "RangeError"}
Thrown(e) == [src |-> "thrown", error |-> e]
ThrownEv(ev, e) ==
    [f \in (DOMAIN ev \ {"out"}) \cup {"threw"} |-> IF f = "threw" THEN e ELSE ev[f]]

\* faulty variant: a handler's failure is caught and the host's result returned
Throwing_HostFallback(o, k, e) ==
    IF o.trace[k].who = "handler"
    THEN Outcome(SubSeq(o.trace, 1, k - 1) \o <<ThrownEv(o.trace[k], e)>>
                    \o <<HostEv("fallback", <<>>, NoResult)>>,
                 NoResult)
    ELSE Outcome(SubSeq(o.trace, 1, k - 1) \o <<ThrownEv(o.trace[k], e)>>, Thrown(e))
\* o is the outcome when nothing throws; the k-th invocation throws e
Throwing(o, k, e) ==
    Outcome(SubSeq(o.trace, 1, k - 1) \o <<ThrownEv(o.trace[k], e)>>, Thrown(e))

(***************************************************************************)
(* ts.getSupportedCodeFixes after n wrappings: each closure returns what   *)
(* the one below returns, then the template service's codes as strings.    *)
(* A string is its sequence of decimal digits.                             *)
(***************************************************************************)
RECURSIVE String(_)
String(x) == IF x < 10 THEN <<x>> ELSE String(x \div 10) \o <<x % 10>>
HostFixCodes == <<String(2304), String(7006)>>
TemplateFixCodes == <<2322, 9001>>

RECURSIVE SupportedCodeFixes(_)
SupportedCodeFixes(n) ==
    IF n = 0 THEN HostFixCodes
    ELSE SupportedCodeFixes(n - 1)
            \o [k \in DOMAIN TemplateFixCodes |-> String(TemplateFixCodes[k])]

(***************************************************************************)
(* State machine.                                                          *)
(***************************************************************************)
NoCall == [op |-> "none", args |-> <<>>]
UnregisteredOps == {"getReferencesAtPosition", "getRenameInfo"}
PositionArgs == {<<o>> : o \in Offsets}
RangeArgs == {a \in Offsets \X Offsets : a[1] <= a[2]}
FileArgs == {<<>>}
PerTemplate(outs) == [DOMAIN templates -> outs]
\* only a hook the template service implements has answers to choose from
Implemented(hook, outs) == IF hook \in templateService THEN outs ELSE {NoResult}

\* the process before any proxy exists
InitProcess ==
    /\ templateService \in CapabilityRecords
    /\ templates \in Layouts
    /\ constructed = 0
    /\ wrappers = <<>>
    /\ registryWraps = 0
    /\ enumLog = <<>>
    /\ phase = "idle"
    /\ call = NoCall
    /\ trace = <<>>
    /\ result = NoResult

\* the state after new TSLanguageServiceProxy(context) and decorate()
Init ==
    /\ templateService \in CapabilityRecords
    /\ templates \in Layouts
    /\ constructed = 1
    /\ wrappers = ConstructorWrappers
    /\ registryWraps = ConstructorRegistryWraps(0)
    /\ enumLog = <<>>
    /\ phase = "idle"
    /\ call = NoCall
    /\ trace = <<>>
    /\ result = NoResult

\* new TSLanguageServiceProxy(context)
Construct ==
    /\ phase = "idle"
    /\ constructed < MaxConstruct
    /\ constructed' = constructed + 1
    /\ wrappers' = ConstructorWrappers
    /\ registryWraps' = ConstructorRegistryWraps(registryWraps)
    /\ enumLog' = <<>>
    /\ UNCHANGED <<templateService, templates, phase, call, trace, result>>

\* one call of composite[name](...args)
Request(name, args, hostOut, tplOut) ==
    /\ phase = "idle"
    /\ constructed >= 1
    /\ LET o == decorate(name, args, hostOut, tplOut)
       IN /\ trace' = o.trace
          /\ result' = o.result
    /\ call' = [op |-> name, args |-> args]
    /\ phase' = "returned"
    /\ UNCHANGED <<templateService, templates, constructed, wrappers,
                   registryWraps, enumLog>>

GetCompletionsAtPosition ==
    \E args \in PositionArgs, hostOut \in HostOuts("getCompletionsAtPosition"),
       tplOut \in Implemented("getCompletionsAtPosition", CompletionOuts) :
        Request("getCompletionsAtPosition", args, hostOut, tplOut)

GetCompletionEntryDetails ==
    \E args \in PositionArgs, hostOut \in HostOuts("getCompletionEntryDetails"),
       tplOut \in Implemented("getCompletionEntryDetails", DetailsOuts) :
        Request("getCompletionEntryDetails", args, hostOut, tplOut)

GetQuickInfoAtPosition ==
    \E args \in PositionArgs, hostOut \in HostOuts("getQuickInfoAtPosition"),
       tplOut \in Implemented("getQuickInfoAtPosition", QuickInfoOuts) :
        Request("getQuickInfoAtPosition", args, hostOut, tplOut)

GetDefinitionAtPosition ==
    \E args \in PositionArgs, hostOut \in HostOuts("getDefinitionAtPosition"),
       tplOut \in Implemented("getDefinitionAtPosition", DefinitionOuts) :
        Request("getDefinitionAtPosition", args, hostOut, tplOut)

GetDefinitionAndBoundSpan ==
    \E args \in PositionArgs, hostOut \in HostOuts("getDefinitionAndBoundSpan"),
       tplOut \in Implemented("getDefinitionAndBoundSpan", DefinitionAndBoundSpanOuts) :
        Request("getDefinitionAndBoundSpan", args, hostOut, tplOut)

GetSignatureHelpItems ==
    \E args \in PositionArgs, hostOut \in HostOuts("getSignatureHelpItems"),
       tplOut \in Implemented("getSignatureHelpItemsAtPosition", SignatureHelpOuts) :
        Request("getSignatureHelpItems", args, hostOut, tplOut)

FindReferences ==
    \E args \in PositionArgs, hostOut \in HostOuts("findReferences"),
       tplOut \in Implemented("getReferencesAtPosition", ReferencesOuts) :
        Request("findReferences", args, hostOut, tplOut)

GetJsxClosingTagAtPosition ==
    \E args \in PositionArgs, hostOut \in HostOuts("getJsxClosingTagAtPosition"),
       tplOut \in Implemented("getJsxClosingTagAtPosition", JsxClosingTagOuts) :
        Request("getJsxClosingTagAtPosition", args, hostOut, tplOut)

GetSyntacticDiagnostics ==
    \E args \in FileArgs, hostOut \in HostOuts("getSyntacticDiagnostics"),
       tplOuts \in PerTemplate(Implemented("getSyntacticDiagnostics", DiagnosticOuts)) :
        Request("getSyntacticDiagnostics", args, hostOut, tplOuts)

GetSemanticDiagnostics ==
    \E args \in FileArgs, hostOut \in HostOuts("getSemanticDiagnostics"),
       tplOuts \in PerTemplate(Implemented("getSemanticDiagnostics", DiagnosticOuts)) :
        Request("getSemanticDiagnostics", args, hostOut, tplOuts)

GetOutliningSpans ==
    \E args \in FileArgs, hostOut \in HostOuts("getOutliningSpans"),
       tplOuts \in PerTemplate(Implemented("getOutliningSpans", OutliningOuts)) :
        Request("getOutliningSpans", args, hostOut, tplOuts)

GetFormattingEditsForRange ==
    \E args \in RangeArgs, hostOut \in HostOuts("getFormattingEditsForRange"),
       tplOuts \in PerTemplate(Implemented("getFormattingEditsForRange", FormattingOuts)) :
        Request("getFormattingEditsForRange", args, hostOut, tplOuts)

GetCodeFixesAtPosition ==
    \E args \in RangeArgs, hostOut \in HostOuts("getCodeFixesAtPosition"),
       tplOuts \in PerTemplate(Implemented("getCodeFixesAtPosition", CodeFixOuts)) :
        Request("getCodeFixesAtPosition", args, hostOut, tplOuts)

\* an operation of the host that no wrapper is ever registered for
UnregisteredOperation ==
    \E name \in UnregisteredOps, args \in PositionArgs :
        \E hostOut \in HostOuts(name) : Request(name, args, hostOut, NoResult)

\* the arguments a caller passes and the answers a handler gives, by operation
ArgsOf(name) ==
    IF name \in {"getSyntacticDiagnostics", "getSemanticDiagnostics", "getOutliningSpans"}
    THEN FileArgs
    ELSE IF name \in {"getFormattingEditsForRange", "getCodeFixesAtPosition"}
    THEN RangeArgs
    ELSE PositionArgs
TplOutsOf(name) ==
    CASE name = "getCompletionsAtPosition" ->
            Implemented("getCompletionsAtPosition", CompletionOuts)
      [] name = "getCompletionEntryDetails" ->
            Implemented("getCompletionEntryDetails", DetailsOuts)
      [] name = "getQuickInfoAtPosition" ->
            Implemented("getQuickInfoAtPosition", QuickInfoOuts)
      [] name = "getDefinitionAtPosition" ->
            Implemented("getDefinitionAtPosition", DefinitionOuts)
      [] name = "getDefinitionAndBoundSpan" ->
            Implemented("getDefinitionAndBoundSpan", DefinitionAndBoundSpanOuts)
      [] name = "getSignatureHelpItems" ->
            Implemented("getSignatureHelpItemsAtPosition", SignatureHelpOuts)
      [] name = "findReferences" -> Implemented("getReferencesAtPosition", ReferencesOuts)
      [] name = "getJsxClosingTagAtPosition" ->
            Implemented("getJsxClosingTagAtPosition", JsxClosingTagOuts)
      [] name \in {"getSyntacticDiagnostics", "getSemanticDiagnostics"} ->
            PerTemplate(Implemented(name, DiagnosticOuts))
      [] name = "getOutliningSpans" -> PerTemplate(Implemented(name, OutliningOuts))
      [] name = "getFormattingEditsForRange" ->
            PerTemplate(Implemented(name, FormattingOuts))
      [] name = "getCodeFixesAtPosition" -> PerTemplate(Implemented(name, CodeFixOuts))
      [] OTHER -> {NoResult}

\* one call of composite[name](...args) during which the host or a handler
\* throws
FailingRequest ==
    /\ phase = "idle"
    /\ constructed >= 1
    /\ \E name \in WrappableOps \cup UnregisteredOps, e \in Errors :
        \E args \in ArgsOf(name), hostOut \in HostOuts(name), tplOut \in TplOutsOf(name) :
            LET o == decorate(name, args, hostOut, tplOut)
            IN \E k \in {n \in DOMAIN o.trace : o.trace[n].who # "locator"} :
                /\ trace' = Throwing(o, k, e).trace
                /\ result' = Throwing(o, k, e).result
                /\ call' = [op |-> name, args |-> args]
    /\ phase' = "failed"
    /\ UNCHANGED <<templateService, templates, constructed, wrappers,
                   registryWraps, enumLog>>

\* the caller has the failure; the next request may start
Propagate ==
    /\ phase = "failed"
    /\ phase' = "idle"
    /\ call' = NoCall
    /\ trace' = <<>>
    /\ result' = NoResult
    /\ UNCHANGED <<templateService, templates, constructed, wrappers,
                   registryWraps, enumLog>>

\* faulty variant: each read leaves the template codes appended to the registry
GetSupportedCodeFixes_Appending ==
    /\ phase = "idle"
    /\ call' = [op |-> "ts.getSupportedCodeFixes", args |-> <<>>]
    /\ trace' = <<>>
    /\ result' = SupportedCodeFixes(registryWraps)
    /\ enumLog' = IF enumLog = <<>> THEN <<result'>>
                  ELSE <<enumLog[Len(enumLog)], result'>>
    /\ phase' = "returned"
    /\ registryWraps' = IF registryWraps >= 1 THEN registryWraps + 1 ELSE registryWraps
    /\ UNCHANGED <<templateService, templates, constructed, wrappers>>
\* ts.getSupportedCodeFixes(), the process-wide registry
GetSupportedCodeFixes ==
    /\ phase = "idle"
    /\ call' = [op |-> "ts.getSupportedCodeFixes", args |-> <<>>]
    /\ trace' = <<>>
    /\ result' = SupportedCodeFixes(registryWraps)
    /\ enumLog' = IF enumLog = <<>> THEN <<result'>>
                  ELSE <<enumLog[Len(enumLog)], result'>>
    /\ phase' = "returned"
    /\ UNCHANGED <<templateService, templates, constructed, wrappers, registryWraps>>

\* the caller takes the returned value; the next request may start
Return ==
    /\ phase = "returned"
    /\ phase' = "idle"
    /\ call' = NoCall
    /\ trace' = <<>>
    /\ result' = NoResult
    /\ UNCHANGED <<templateService, templates, constructed, wrappers,
                   registryWraps, enumLog>>

Next ==
    \/ GetCompletionsAtPosition
    \/ GetCompletionEntryDetails
    \/ GetQuickInfoAtPosition
    \/ GetDefinitionAtPosition
    \/ GetDefinitionAndBoundSpan
    \/ GetSemanticDiagnostics
    \/ GetSyntacticDiagnostics
    \/ GetFormattingEditsForRange
    \/ GetCodeFixesAtPosition
    \/ GetSupportedCodeFixes
    \/ GetSignatureHelpItems
    \/ GetOutliningSpans
    \/ FindReferences
    \/ GetJsxClosingTagAtPosition
    \/ UnregisteredOperation
    \/ FailingRequest
    \/ Return
    \/ Propagate

\* requests on the composite of one proxy
Spec == Init /\ [][Next]_vars

\* the process lifetime: proxies are constructed (one per project) and the
\* registry is read
NextProcess ==
    \/ Construct
    \/ GetSupportedCodeFixes
    \/ Return

SpecProcess == InitProcess /\ [][NextProcess]_vars

(***************************************************************************)
(* Reading a finished request.                                             *)
(***************************************************************************)
ReplaceOps == {"getCompletionsAtPosition", "getCompletionEntryDetails",
               "getQuickInfoAtPosition", "getDefinitionAtPosition",
               "getDefinitionAndBoundSpan", "getSignatureHelpItems",
               "findReferences", "getJsxClosingTagAtPosition"}
MergeWholeOps == {"getSyntacticDiagnostics", "getSemanticDiagnostics", "getOutliningSpans"}
MergeRangeOps == {"getFormattingEditsForRange", "getCodeFixesAtPosition"}

Returned == phase = "returned"
HostCalls == SelectSeq(trace, LAMBDA ev : ev.who = "host")
HandlerCalls == SelectSeq(trace, LAMBDA ev : ev.who = "handler")
LocatorCalls == SelectSeq(trace, LAMBDA ev : ev.who = "locator")
InsideTemplate(o) == \E i \in DOMAIN templates : templates[i].start <= o /\ o < templates[i].end
HandlerGaveNothing == HandlerCalls = <<>> \/ HandlerCalls[1].out = NoResult
PassedThrough ==
    /\ trace = <<HostEv(call.op, call.args, result)>>

\* C1: a wrapped replace-if-applicable operation called at an offset inside a
\* template never invokes the host and returns nothing of the host's; when the
\* handler gives nothing, the composite returns no result.
C1_TemplateSuppressesHost ==
    (Returned /\ call.op \in ReplaceOps /\ Wrapped(call.op) /\ InsideTemplate(call.args[1]))
        => /\ HostCalls = <<>>
           /\ result.src # "host"
           /\ HandlerGaveNothing => result = NoResult

\* C1 witness: a template at the position, the handler answered undefined, and
\* the composite returned undefined without asking the host.
C1_Witness ==
    /\ Returned /\ call.op = "getJsxClosingTagAtPosition" /\ Wrapped(call.op)
    /\ InsideTemplate(call.args[1])
    /\ Len(HandlerCalls) = 1 /\ HandlerCalls[1].out = NoResult
    /\ result = NoResult /\ HostCalls = <<>>

\* C2: a replace-if-applicable operation called at an offset in no template
\* invokes the host once with the caller's arguments, returns the host's
\* result, and invokes no handler.
C2_NoTemplateIsHost ==
    (Returned /\ call.op \in ReplaceOps /\ ~InsideTemplate(call.args[1]))
        => /\ Len(HostCalls) = 1
           /\ HostCalls[1].op = call.op
           /\ HostCalls[1].args = call.args
           /\ result = HostCalls[1].out
           /\ HandlerCalls = <<>>

\* C2 witness: a wrapped operation, a document with a template, a position
\* outside it, and the host's object returned.
C2_Witness ==
    /\ Returned /\ call.op = "getQuickInfoAtPosition" /\ Wrapped(call.op)
    /\ templates # <<>> /\ ~InsideTemplate(call.args[1])
    /\ result = HostObject(call.op)

(***************************************************************************)
(* What the merging claims expect of a result, read off the handler        *)
(* invocations of the request.                                             *)
(***************************************************************************)
GlobalSpan(sp, t) == IF sp = AbsentSpan THEN sp ELSE Span(sp.start + t.start, sp.length)
HandlerTemplates == [k \in DOMAIN HandlerCalls |-> HandlerCalls[k].tpl]
\* index in the result of the first item of the k-th handler invocation, minus one
RECURSIVE ItemBase(_)
ItemBase(k) ==
    IF k = 1 THEN Len(HostCalls[1].out)
    ELSE ItemBase(k - 1) + Len(HandlerCalls[k - 1].out)
HandlerItemCount == ItemBase(Len(HandlerCalls) + 1) - Len(HostCalls[1].out)
HostResultFirst ==
    /\ Len(HostCalls) = 1
    /\ Len(result) = Len(HostCalls[1].out) + HandlerItemCount
    /\ SubSeq(result, 1, Len(HostCalls[1].out)) = HostCalls[1].out

HasStart(d) == "start" \in DOMAIN d
GlobalDiagnostic(d, t) == IF HasStart(d) THEN [d EXCEPT !.start = @ + t.start] ELSE d
GlobalOutliningSpan(o, t) ==
    [o EXCEPT !.textSpan = GlobalSpan(@, t), !.hintSpan = GlobalSpan(@, t)]
GlobalItem(op, item, t) ==
    IF op = "getOutliningSpans" THEN GlobalOutliningSpan(item, t)
    ELSE GlobalDiagnostic(item, t)

\* C3: a whole-document merge returns the host's items, then every item of
\* every template's handler, in template order, each that has a position at
\* local start plus the template's start.
C3_WholeDocumentMerge ==
    (Returned /\ call.op \in MergeWholeOps /\ Wrapped(call.op))
        => /\ HandlerTemplates = [i \in DOMAIN templates |-> i]
           /\ HostResultFirst
           /\ \A k \in DOMAIN HandlerCalls : \A j \in DOMAIN HandlerCalls[k].out :
                (call.op = "getOutliningSpans" \/ HasStart(HandlerCalls[k].out[j]))
                    => result[ItemBase(k) + j] =
                        GlobalItem(call.op, HandlerCalls[k].out[j],
                                   templates[HandlerCalls[k].tpl])

\* C4: a range-filtered merge invokes the handler for exactly the templates
\* that intersectWith(s, e), once each, and the others add nothing.
C4_OnlyIntersectingTemplates ==
    (Returned /\ call.op \in MergeRangeOps /\ Wrapped(call.op))
        => /\ \A i \in DOMAIN templates :
                Cardinality({k \in DOMAIN HandlerCalls : HandlerCalls[k].tpl = i})
                    = IF intersectWith(templates[i], call.args[1], call.args[2])
                      THEN 1 ELSE 0
           /\ \A k \in DOMAIN HandlerCalls : HandlerCalls[k].hook = call.op
           /\ Len(HostCalls) = 1
           /\ Len(result) = Len(HostCalls[1].out) + HandlerItemCount

\* C4 witness: two templates, a range over the first only, one handler
\* invocation, for the first, whose items are in the result.
C4_Witness ==
    /\ Returned /\ call.op = "getFormattingEditsForRange" /\ Wrapped(call.op)
    /\ Len(templates) = 2
    /\ call.args[1] < templates[1].start /\ call.args[2] = templates[1].end
    /\ HandlerTemplates = <<1>>
    /\ Len(HandlerCalls[1].out) = 2
    /\ Len(result) = Len(HostCalls[1].out) + 2

\* C5: a range-filtered merge returns the host's items, then the items of
\* every intersecting template; every formatting edit's span and every text
\* edit's span of every change of every code-fix action starts at its local
\* start plus the start of the template that produced it.
C5_RangeMergeTranslatesEverySpan ==
    (Returned /\ call.op \in MergeRangeOps /\ Wrapped(call.op))
        => /\ HostResultFirst
           /\ HandlerTemplates =
                SelectSeq([i \in DOMAIN templates |-> i],
                          LAMBDA i : intersectWith(templates[i], call.args[1], call.args[2]))
           /\ \A k \in DOMAIN HandlerCalls : \A j \in DOMAIN HandlerCalls[k].out :
                LET got == result[ItemBase(k) + j]
                    item == HandlerCalls[k].out[j]
                    t == templates[HandlerCalls[k].tpl]
                IN IF call.op = "getFormattingEditsForRange"
                   THEN got = [item EXCEPT !.span = GlobalSpan(@, t)]
                   ELSE /\ DOMAIN got.changes = DOMAIN item.changes
                        /\ \A c \in DOMAIN item.changes :
                            /\ DOMAIN got.changes[c].textChanges
                                    = DOMAIN item.changes[c].textChanges
                            /\ \A e \in DOMAIN item.changes[c].textChanges :
                                got.changes[c].textChanges[e].span.start =
                                    item.changes[c].textChanges[e].span.start + t.start

\* C5 witness: a code-fix action with two changes, the second with two text
\* edits, produced for a template that does not start at 0, after a host item.
C5_Witness ==
    /\ Returned /\ call.op = "getCodeFixesAtPosition" /\ Wrapped(call.op)
    /\ Len(HandlerCalls) >= 1 /\ Len(HandlerCalls[1].out) = 2
    /\ Len(HostCalls[1].out) = 1
    /\ Len(result[3].changes) = 2
    /\ Len(result[3].changes[2].textChanges) = 2
    /\ result[3].changes[2].textChanges[2].span.start =
        HandlerCalls[1].out[2].changes[2].textChanges[2].span.start
            + templates[HandlerCalls[1].tpl].start
    /\ templates[HandlerCalls[1].tpl].start > 0

\* C6: with a template at the position, every local position of the handler's
\* result comes back global: each completion entry's replacementSpan, the
\* quick-info textSpan, the bound span of getDefinitionAndBoundSpan, the
\* signature-help applicableSpan, each find-references symbol's span.
C6_ReplaceResultsAreGlobal ==
    (Returned /\ call.op \in ReplaceOps /\ Wrapped(call.op)
        /\ Len(HandlerCalls) = 1 /\ HandlerCalls[1].out # NoResult)
        => LET out == HandlerCalls[1].out
               t == templates[HandlerCalls[1].tpl]
           IN CASE call.op = "getCompletionsAtPosition" ->
                    /\ DOMAIN result.entries = DOMAIN out.entries
                    /\ \A j \in DOMAIN out.entries :
                        result.entries[j].replacementSpan =
                            GlobalSpan(out.entries[j].replacementSpan, t)
                [] call.op = "getQuickInfoAtPosition" ->
                    result.textSpan = GlobalSpan(out.textSpan, t)
                [] call.op = "getDefinitionAndBoundSpan" ->
                    result.textSpan = GlobalSpan(out.textSpan, t)
                [] call.op = "getSignatureHelpItems" ->
                    result.applicableSpan = GlobalSpan(out.applicableSpan, t)
                [] call.op = "findReferences" ->
                    /\ DOMAIN result.list = DOMAIN out.list
                    /\ \A j \in DOMAIN out.list :
                        result.list[j].definition.textSpan =
                            GlobalSpan(out.list[j].definition.textSpan, t)
                [] OTHER -> TRUE

\* C7: an operation no wrapper is registered for is the host's own member:
\* the call is one host invocation with the caller's arguments, its value is
\* returned, and neither the locator nor a handler is consulted.
C7_UnregisteredIsPassThrough ==
    (Returned /\ call.op # "ts.getSupportedCodeFixes" /\ ~Wrapped(call.op))
        => PassedThrough

\* C7 witness: getReferencesAtPosition, which the template service implements
\* as a hook but which is no registered name, called inside a template.
C7_Witness ==
    /\ Returned /\ call.op = "getReferencesAtPosition"
    /\ "getReferencesAtPosition" \in templateService
    /\ Wrapped("findReferences")
    /\ InsideTemplate(call.args[1])
    /\ result = HostObject(call.op)
    /\ LocatorCalls = <<>> /\ HandlerCalls = <<>>

\* C8: a wrapper is registered only under a name whose hook the template
\* service implements; with the hook absent the operation behaves as the
\* host's, and without the getSupportedCodeFixes hook the registry is the
\* host's.
C8_WrapperOnlyWithHook ==
    /\ \A k \in DOMAIN WrapTable :
        Wrapped(WrapTable[k].name) => WrapTable[k].hook \in templateService
    /\ (Returned /\ call.op \in WrappableOps /\ HookOf(call.op) \notin templateService)
        => PassedThrough
    /\ "getSupportedCodeFixes" \notin templateService
        => /\ registryWraps = 0
           /\ (Returned /\ call.op = "ts.getSupportedCodeFixes") => result = HostFixCodes

\* C8 witness: a template service with some hook but not getReferencesAtPosition;
\* findReferences inside a template returns the host's object.
C8_Witness ==
    /\ Returned /\ call.op = "findReferences"
    /\ templateService # {} /\ "getReferencesAtPosition" \notin templateService
    /\ InsideTemplate(call.args[1])
    /\ result = HostObject(call.op)

Occurrences(x, seq) == Cardinality({k \in DOMAIN seq : seq[k] = x})
TemplateFixStrings == [k \in DOMAIN TemplateFixCodes |-> String(TemplateFixCodes[k])]

\* C9: two enumerations with no construction between them give the same list,
\* the second with no more copies of a template-supplied identifier.
C9_RepeatedReadsAgree ==
    Len(enumLog) = 2
        => /\ enumLog[1] = enumLog[2]
           /\ \A k \in DOMAIN TemplateFixStrings :
                Occurrences(TemplateFixStrings[k], enumLog[2])
                    <= Occurrences(TemplateFixStrings[k], enumLog[1])

\* C9 witness: the registry was extended and has been read twice since.
C9_Witness ==
    /\ Returned /\ call.op = "ts.getSupportedCodeFixes"
    /\ registryWraps >= 1
    /\ Len(enumLog) = 2
    /\ Occurrences(TemplateFixStrings[1], enumLog[2]) >= 1

\* C10: over the process lifetime the registry is extended once in total, and
\* every enumeration returns the host's identifiers and each template-supplied
\* identifier exactly once.
C10_RegistryExtendedOnce ==
    /\ registryWraps <= 1
    /\ (Returned /\ call.op = "ts.getSupportedCodeFixes" /\ registryWraps >= 1)
        => /\ SubSeq(result, 1, Len(HostFixCodes)) = HostFixCodes
           /\ \A k \in DOMAIN TemplateFixStrings :
                Occurrences(TemplateFixStrings[k], result) = 1

(***************************************************************************)
(* What translation must leave alone: an item as returned against the item *)
(* as the handler gave it.                                                 *)
(***************************************************************************)
\* a span field: absent stays absent, a present span keeps its length
SameSpanButStart(got, sp) ==
    IF sp = AbsentSpan THEN got = AbsentSpan
    ELSE got # AbsentSpan /\ got.length = sp.length
\* a diagnostic: the same fields (no start where there was none), and every
\* field but start with the handler's value
FrameDiagnostic(got, item) ==
    /\ DOMAIN got = DOMAIN item
    /\ \A f \in DOMAIN item \ {"start"} : got[f] = item[f]
FrameOutliningSpan(got, item) ==
    /\ [got EXCEPT !.textSpan = item.textSpan, !.hintSpan = item.hintSpan] = item
    /\ SameSpanButStart(got.textSpan, item.textSpan)
    /\ SameSpanButStart(got.hintSpan, item.hintSpan)
FrameTextChange(got, item) ==
    /\ [got EXCEPT !.span = item.span] = item
    /\ SameSpanButStart(got.span, item.span)
FrameCodeFixAction(got, item) ==
    /\ [got EXCEPT !.changes = item.changes] = item
    /\ DOMAIN got.changes = DOMAIN item.changes
    /\ \A c \in DOMAIN item.changes :
        /\ DOMAIN got.changes[c].textChanges = DOMAIN item.changes[c].textChanges
        /\ \A e \in DOMAIN item.changes[c].textChanges :
            FrameTextChange(got.changes[c].textChanges[e],
                            item.changes[c].textChanges[e])
FrameMergedItem(op, got, item) ==
    CASE op \in {"getSyntacticDiagnostics", "getSemanticDiagnostics"} ->
            FrameDiagnostic(got, item)
      [] op = "getOutliningSpans" -> FrameOutliningSpan(got, item)
      [] op = "getFormattingEditsForRange" -> FrameTextChange(got, item)
      [] op = "getCodeFixesAtPosition" -> FrameCodeFixAction(got, item)
FrameReplaced(op, got, out) ==
    CASE op = "getCompletionsAtPosition" ->
            /\ [got EXCEPT !.entries = out.entries] = out
            /\ DOMAIN got.entries = DOMAIN out.entries
            /\ \A j \in DOMAIN out.entries :
                /\ [got.entries[j] EXCEPT !.replacementSpan =
                        out.entries[j].replacementSpan] = out.entries[j]
                /\ SameSpanButStart(got.entries[j].replacementSpan,
                                    out.entries[j].replacementSpan)
      [] op \in {"getQuickInfoAtPosition", "getDefinitionAndBoundSpan"} ->
            /\ [got EXCEPT !.textSpan = out.textSpan] = out
            /\ SameSpanButStart(got.textSpan, out.textSpan)
      [] op = "getSignatureHelpItems" ->
            /\ [got EXCEPT !.applicableSpan = out.applicableSpan] = out
            /\ SameSpanButStart(got.applicableSpan, out.applicableSpan)
      [] op = "findReferences" ->
            /\ DOMAIN got.list = DOMAIN out.list
            /\ \A j \in DOMAIN out.list :
                /\ [got.list[j] EXCEPT !.definition.textSpan =
                        out.list[j].definition.textSpan] = out.list[j]
                /\ SameSpanButStart(got.list[j].definition.textSpan,
                                    out.list[j].definition.textSpan)
      [] OTHER -> got = out

\* the handler-produced items of a merged result: those after the host's
MergedItemsReturned ==
    /\ Len(HostCalls) = 1
    /\ Len(result) = Len(HostCalls[1].out) + HandlerItemCount

\* C11: after any wrapped operation every field of a handler-produced item
\* other than its local offsets, each span's length included, is what the
\* handler returned, and an optional position field absent in the handler's
\* item (a diagnostic's start, a replacementSpan, a hintSpan, a textSpan, an
\* applicableSpan) is absent in the returned item.
C11_TranslationKeepsTheRest ==
    /\ (Returned /\ call.op \in ReplaceOps /\ Wrapped(call.op)
            /\ Len(HandlerCalls) = 1 /\ HandlerCalls[1].out # NoResult)
        => FrameReplaced(call.op, result, HandlerCalls[1].out)
    /\ (Returned /\ call.op \in MergeOps /\ Wrapped(call.op) /\ MergedItemsReturned)
        => \A k \in DOMAIN HandlerCalls : \A j \in DOMAIN HandlerCalls[k].out :
                FrameMergedItem(call.op, result[ItemBase(k) + j], HandlerCalls[k].out[j])

\* C12: a wrapped replace-if-applicable operation called at an offset g inside
\* template t invokes the handler of that same operation exactly once, for t
\* and the local offset g - t.start, and returns what that handler returned,
\* whichever other hooks the template service has or lacks.
C12_OwnHandlerOnceInsideTemplate ==
    (Returned /\ call.op \in ReplaceOps /\ Wrapped(call.op) /\ InsideTemplate(call.args[1]))
        => LET i == getTemplateAt(call.args[1])
           IN /\ Len(HandlerCalls) = 1
              /\ HandlerCalls[1].hook = HookOf(call.op)
              /\ HandlerCalls[1].tpl = i
              /\ HandlerCalls[1].args = <<call.args[1] - templates[i].start>>
              /\ IF HandlerCalls[1].out = NoResult
                 THEN result = NoResult
                 ELSE FrameReplaced(call.op, result, HandlerCalls[1].out)

\* C13: in every call of a wrapped operation each global offset converted to
\* a template's local space lies within that template, start <= o <= end, so
\* each local offset handed to a handler lies in 0 .. end - start; so too
\* when a requested range only partly overlaps the template.
C13_ConvertedOffsetsInsideTemplate ==
    (Returned /\ Wrapped(call.op))
        => \A k \in DOMAIN HandlerCalls :
            LET t == templates[HandlerCalls[k].tpl]
                locals == HandlerCalls[k].args
            IN /\ locals # <<>> => Len(locals) = Len(call.args)
               /\ \A a \in DOMAIN locals :
                    /\ t.start <= call.args[a] /\ call.args[a] <= t.end
                    /\ 0 <= locals[a] /\ locals[a] <= t.end - t.start

Failed == phase = "failed"
Threw(ev) == "threw" \in DOMAIN ev
Invocations == SelectSeq(trace, LAMBDA ev : ev.who # "locator")

\* C14: when the host or a handler throws during a call of the composite, the
\* caller gets that same failure and no value; the throwing invocation is the
\* last one made (no retry, no fallback), so after a handler's failure the host
\* is not invoked, in a merging operation either.
C14_FailurePropagates ==
    Failed
        => /\ Invocations # <<>>
           /\ \A k \in DOMAIN Invocations : Threw(Invocations[k]) <=> k = Len(Invocations)
           /\ result = Thrown(Invocations[Len(Invocations)].threw)
           /\ Invocations[Len(Invocations)].who = "handler" => HostCalls = <<>>

\* C14 witness: a merging operation on two templates; the first template's
\* handler returned an item, the second's threw, the host was not asked and
\* the caller has the failure.
C14_Witness ==
    /\ Failed /\ call.op = "getSemanticDiagnostics" /\ Wrapped(call.op)
    /\ Len(templates) = 2
    /\ Len(HandlerCalls) = 2
    /\ ~Threw(HandlerCalls[1]) /\ Len(HandlerCalls[1].out) >= 1
    /\ Threw(HandlerCalls[2])
    /\ HostCalls = <<>>
    /\ result = Thrown("RangeError")

====
